---- MODULE Spec2Model ----
(***************************************************************************)
(* ductworks: message ducts over stream sockets.                           *)
(*                                                                         *)
(* The state machines of this module:                                      *)
(*   LifeSpec  the transport ducts of base_duct.py: RawDuctParent (bind,   *)
(*             listen, raw I/O, close) and RawDuctChild (connect, raw I/O, *)
(*             close) over Unix domain sockets, with the kernel's accept   *)
(*             queue and the listener's filesystem path.                   *)
(*   Spec      the framing layer of message_duct.py: MessageDuct*.send and *)
(*             MessageDuct*.recv, statement by statement, over a byte      *)
(*             stream that splits writes and reads.                        *)
(*   PairSpec  create_psuedo_anonymous_duct_pair run statement by          *)
(*             statement over the transport ducts, then the framing layer  *)
(*             on the pair it returned, with poll().                       *)
(*   LoopSpec  the framing layer with the result of each transport call    *)
(*             of the write, length and payload loops.                     *)
(*   FreeSpec  two threads sending on one duct, with and without a lock.   *)
(*   RecvSpec  two threads receiving on one duct that has a lock.          *)
(*   LenSpec   one frame header, for payload lengths over the whole range  *)
(*             of the 32-bit length field and above it.                    *)
(*   DuplexSpec  a pair used in both directions, a lock on each duct, one  *)
(*             sending and one receiving thread on each.                   *)
(***************************************************************************)
EXTENDS Integers, Sequences, FiniteSets, TLC

\* ------------------------------------------------------------------ bounds
\* Socket handles the kernel hands out in one run (constructor and accept calls).
MaxSockets == 4
\* Destructor calls counted per handle; the count saturates here.
MaxDestroyCount == 2

\* ------------------------------------------------------- transport variables
VARIABLES
    listener_socket,  \* RawDuctParent.listener_socket: 0 (None) or a socket handle
    conn_socket,      \* RawDuctParent.conn_socket: 0 (None) or a socket handle
    socket,           \* RawDuctChild.socket: 0 (None) or a socket handle
    sockState,        \* per handle: "fresh" | "unconn" | "listening" | "connected" | "reset" | "closed"
    destroyed,        \* per handle: number of destructor calls made on it
    peer,             \* per handle: the handle at the other end of its connection, or 0
    backlog,          \* the listener's accept queue: client handles, oldest first
    pathExists,       \* whether bind_address exists in the filesystem
    lastCall,         \* the most recent duct call and how it ended
    life,             \* per duct: "new", "used" (bind, listen or connect was called),
                      \* "closed" (close was the last of these), "reused" (used after a close)
    role              \* per handle: "none" | "listener" | "client" | "accepted"

\* --------------------------------------------------------- framing variables
VARIABLES
    mode,        \* "framed": the peer uses MessageDuct.send; "raw": it writes bytes itself; "off"
    lock,        \* per duct, self.lock: "absent" (None), "free", or the thread holding it
    wire,        \* every byte the sending duct's socket has accepted, in order
    rpos,        \* how many bytes of wire the receiving socket has handed out
    th,          \* per thread: where it is in send or recv, and its locals
    sendCalls,   \* the send calls made, in call order: the payload, and whether the
                 \* duct held a connection
    senders,     \* the threads that have called send
    recvLog      \* how each recv call ended, in order

frameVars == <<mode, lock, wire, rpos, th, sendCalls, senders, recvLog>>

\* ------------------------------------------------ pair factory and poll loop
VARIABLES
    pair,        \* create_psuedo_anonymous_duct_pair: the statement it is at (pc, 0 when
                 \* it is not in use), the address it read, the address the child
                 \* was constructed with, and how it ended
    polled       \* what the poll() made since the last recv() on the receiving duct
                 \* returned: "none" (no poll made), "ready" (True), "not_ready" (False)

\* --------------------------------------------------- scenario and loop state
VARIABLES
    conf,        \* the scenario: the threads that make calls (cast), and whether
                 \* threads may share a duct that has no lock (unlocked)
    xfer,        \* per thread: what the last transport call of the send or recv in
                 \* progress transferred, -1 before the first one
    lenField,    \* one frame header on its way: the payload length as two 16-bit
                 \* halves (hi, lo), where send and recv are, and what they hold
    duplex       \* a pair in use in both directions: per duct its lock, the bytes
                 \* it has written and how many of them the peer has read; per
                 \* thread where it is in send or recv

extraVars == <<conf, xfer, lenField, duplex>>

auxVars == <<pair, polled, extraVars>>

lifeVars == <<listener_socket, conn_socket, socket, sockState, destroyed, peer,
              backlog, pathExists, lastCall, life, role>>

None == 0
Handles == 1..MaxSockets
Ducts == {"parent", "child"}

\* listen_queue_depth default of RawDuctParent.bind
ListenQueueDepth == 1

NoCall == [who |-> "none", op |-> "none", res |-> "none", ret |-> FALSE, hadConn |-> FALSE]

Call(who, op, res, ret, had) ==
    [who |-> who, op |-> op, res |-> res, ret |-> ret, hadConn |-> had]

LifeInit ==
    /\ listener_socket = None
    /\ conn_socket = None
    /\ socket = None
    /\ sockState = [h \in Handles |-> "fresh"]
    /\ destroyed = [h \in Handles |-> 0]
    /\ peer = [h \in Handles |-> None]
    /\ backlog = <<>>
    /\ pathExists = FALSE
    /\ lastCall = NoCall
    /\ life = [d \in Ducts |-> "new"]
    /\ role = [h \in Handles |-> "none"]

\* bind, listen or connect is called on duct d
Touched(d) == [life EXCEPT ![d] = IF @ \in {"closed", "reused"} THEN "reused" ELSE "used"]
\* close is called on duct d
Closed(d) == [life EXCEPT ![d] = "closed"]

\* ------------------------------------------------------- kernel-side helpers
\* The kernel state a socket call reads and writes, with a flag for "the call raised".
Kernel ==
    [st |-> sockState, de |-> destroyed, pr |-> peer, bl |-> backlog,
     px |-> pathExists, kd |-> role, raised |-> FALSE]

\* One more destructor call on a handle.
Counted(n) == IF n < MaxDestroyCount THEN n + 1 ELSE n

\* The lowest handle not yet handed out (None when the bound is used up).
Fresh(st) ==
    IF \E h \in Handles : st[h] = "fresh"
    THEN CHOOSE h \in Handles : st[h] = "fresh" /\ \A g \in Handles : g < h => st[g] # "fresh"
    ELSE None

\* socket.socket(AF_UNIX, SOCK_STREAM): a new, unconnected socket.
psuedo_anon_uds_constructor(k) ==
    [k EXCEPT !.st[Fresh(k.st)] = "unconn"]

\* Every client still waiting in the accept queue loses its connection when the
\* listener goes away.
ResetQueued(st, bl) ==
    [h \in Handles |-> IF st[h] = "connected" /\ \E i \in 1..Len(bl) : bl[i] = h
                       THEN "reset" ELSE st[h]]

\* Mutant: the listener is shut down and closed, its path is left behind.
ListenerDestructorNoUnlink(k, h) ==
    IF k.st[h] = "closed"
    THEN [k EXCEPT !.de[h] = Counted(@), !.raised = TRUE]
    ELSE [k EXCEPT !.de[h] = Counted(@),
                   !.st = [ResetQueued(k.st, k.bl) EXCEPT ![h] = "closed"],
                   !.bl = <<>>]

\* getsockname() on a closed socket raises OSError (EBADF) before anything else
\* is done; otherwise shutdown, close, and unlink with its OSError swallowed.
psuedo_anon_uds_listener_destructor(k, h) ==
    IF k.st[h] = "closed"
    THEN [k EXCEPT !.de[h] = Counted(@), !.raised = TRUE]
    ELSE [k EXCEPT !.de[h] = Counted(@),
                   !.st = [ResetQueued(k.st, k.bl) EXCEPT ![h] = "closed"],
                   !.bl = <<>>,
                   !.px = FALSE]

\* shutdown(SHUT_RDWR) on a closed socket raises OSError (EBADF); on an open
\* Unix domain socket, connected or not, it succeeds; then close.
psuedo_anon_uds_client_destructor(k, h) ==
    IF k.st[h] = "closed"
    THEN [k EXCEPT !.de[h] = Counted(@), !.raised = TRUE]
    ELSE [k EXCEPT !.de[h] = Counted(@), !.st[h] = "closed"]

SetKernel(k) ==
    /\ sockState' = k.st
    /\ destroyed' = k.de
    /\ peer' = k.pr
    /\ backlog' = k.bl
    /\ pathExists' = k.px
    /\ role' = k.kd

\* A duct "has a connection" when it holds a socket that was connected.
ParentHasConn == conn_socket # None
ChildHasConn == socket # None /\ sockState[socket] \in {"connected", "reset"}

\* ------------------------------------------------------------ RawDuctParent
\* listener_socket = constructor(); bind(bind_address); listen(listen_queue_depth)
BindListener(k) ==
    LET h == Fresh(k.st)
        k1 == psuedo_anon_uds_constructor(k)
    IN [k1 EXCEPT !.st[h] = "listening", !.px = TRUE, !.kd[h] = "listener"]

\* Mutant: bind does not look whether the duct is bound already.
ParentBindRebinds ==
    IF conn_socket # None
    THEN /\ lastCall' = Call("parent", "bind", "InvalidState", FALSE, ParentHasConn)
         /\ life' = Touched("parent")
         /\ UNCHANGED <<listener_socket, conn_socket, socket, sockState, destroyed,
                        peer, backlog, pathExists, role>>
    ELSE /\ Fresh(sockState) # None
         /\ listener_socket' = Fresh(sockState)
         /\ SetKernel(BindListener(Kernel))
         /\ lastCall' = Call("parent", "bind", "ok", FALSE, ParentHasConn)
         /\ life' = Touched("parent")
         /\ UNCHANGED <<conn_socket, socket>>

ParentBind ==
    IF conn_socket # None
    THEN /\ lastCall' = Call("parent", "bind", "InvalidState", FALSE, ParentHasConn)
         /\ life' = Touched("parent")
         /\ UNCHANGED <<listener_socket, conn_socket, socket, sockState, destroyed,
                        peer, backlog, pathExists, role>>
    ELSE IF listener_socket = None
    THEN /\ Fresh(sockState) # None
         /\ listener_socket' = Fresh(sockState)
         /\ SetKernel(BindListener(Kernel))
         /\ lastCall' = Call("parent", "bind", "ok", FALSE, ParentHasConn)
         /\ life' = Touched("parent")
         /\ UNCHANGED <<conn_socket, socket>>
    ELSE /\ lastCall' = Call("parent", "bind", "ok", FALSE, ParentHasConn)
         /\ life' = Touched("parent")
         /\ UNCHANGED <<listener_socket, conn_socket, socket, sockState, destroyed,
                        peer, backlog, pathExists, role>>

\* listener_socket.accept(): the oldest queued client gets a new connected socket.
Accept(k) ==
    LET c == Head(k.bl)
        h == Fresh(k.st)
    IN [k EXCEPT !.st[h] = "connected", !.pr[h] = c, !.pr[c] = h, !.bl = Tail(k.bl),
                 !.kd[h] = "accepted"]

\* Mutant: a listener that is readable as well has its connection accepted
\* before the fault is looked at.
ListenFaultedAcceptsFirst(k, ls) ==
    IF k.bl # <<>> /\ Fresh(k.st) # None
    THEN /\ conn_socket' = Fresh(k.st)
         /\ SetKernel(psuedo_anon_uds_listener_destructor(Accept(k), ls))
         /\ listener_socket' = ls
         /\ lastCall' = Call("parent", "listen", "CommunicationFault", FALSE, FALSE)
    ELSE /\ SetKernel(psuedo_anon_uds_listener_destructor(k, ls))
         /\ listener_socket' = ls
         /\ conn_socket' = conn_socket
         /\ lastCall' = Call("parent", "listen", "CommunicationFault", FALSE, FALSE)

\* select() found the listener exceptionally ready: destroy it and raise. The
\* reference self.listener_socket is left as it is.
ListenFaulted(k, ls) ==
    /\ SetKernel(psuedo_anon_uds_listener_destructor(k, ls))
    /\ listener_socket' = ls
    /\ conn_socket' = conn_socket
    /\ lastCall' = Call("parent", "listen", "CommunicationFault", FALSE, FALSE)

\* Mutant: the connection is accepted and the listener is kept for more.
ListenAcceptedKeepsListener(k, ls) ==
    /\ Fresh(k.st) # None
    /\ conn_socket' = Fresh(k.st)
    /\ SetKernel(Accept(k))
    /\ listener_socket' = ls
    /\ lastCall' = Call("parent", "listen", "ok", TRUE, FALSE)

\* select() found the listener readable: accept, destroy the listener, clear it.
ListenAccepted(k, ls) ==
    /\ Fresh(k.st) # None
    /\ conn_socket' = Fresh(k.st)
    /\ SetKernel(psuedo_anon_uds_listener_destructor(Accept(k), ls))
    /\ listener_socket' = None
    /\ lastCall' = Call("parent", "listen", "ok", TRUE, FALSE)

\* Mutant: a listen that times out tears the listener down.
ListenTimedOutDestroys(k, ls) ==
    /\ SetKernel(psuedo_anon_uds_listener_destructor(k, ls))
    /\ listener_socket' = None
    /\ conn_socket' = conn_socket
    /\ lastCall' = Call("parent", "listen", "ok", conn_socket # None, FALSE)

\* select() timed out: nothing is touched, bool(self.conn_socket) is returned.
ListenTimedOut(k, ls) ==
    /\ SetKernel(k)
    /\ listener_socket' = ls
    /\ conn_socket' = conn_socket
    /\ lastCall' = Call("parent", "listen", "ok", conn_socket # None, FALSE)

ParentListen(is_faulted) ==
    IF conn_socket # None
    THEN /\ lastCall' = Call("parent", "listen", "InvalidState", FALSE, TRUE)
         /\ life' = Touched("parent")
         /\ UNCHANGED <<listener_socket, conn_socket, socket, sockState, destroyed,
                        peer, backlog, pathExists, role>>
    ELSE /\ listener_socket = None => Fresh(sockState) # None
         /\ LET k == IF listener_socket = None THEN BindListener(Kernel) ELSE Kernel
                ls == IF listener_socket = None THEN Fresh(sockState) ELSE listener_socket
                has_conn == k.bl # <<>>
            IN IF k.st[ls] = "closed"
               \* fileno() is -1 and select() raises ValueError
               THEN /\ lastCall' = Call("parent", "listen", "ValueError", FALSE, FALSE)
                    /\ UNCHANGED <<listener_socket, conn_socket, sockState, destroyed,
                                   peer, backlog, pathExists, role>>
               ELSE IF is_faulted THEN ListenFaulted(k, ls)
               ELSE IF has_conn THEN ListenAccepted(k, ls)
               ELSE ListenTimedOut(k, ls)
         /\ life' = Touched("parent")
         /\ socket' = socket

RawOps == {"send", "recv", "recv_into", "poll"}

\* Bytes written to the child's socket that the parent's socket has not handed out.
InFlight == Len(wire) - rpos

\* select.select([sock], [], [], timeout) finds the socket readable: bytes are
\* waiting on it, or a read would return at once (the peer has closed, the
\* connection was reset, or the socket was never connected).
Readable(h) ==
    \/ sockState[h] \in {"unconn", "reset"}
    \/ h = conn_socket /\ InFlight > 0
    \/ peer[h] # None /\ sockState[peer[h]] = "closed"

\* What the connected socket's call does: send on a connection whose peer has
\* gone raises (EPIPE); reads and select return.
ConnectedResult(op, h) ==
    IF op = "send" /\ (sockState[h] = "reset" \/ (peer[h] # None /\ sockState[peer[h]] = "closed"))
    THEN "OSError"
    ELSE IF op \in {"recv", "recv_into"} /\ sockState[h] = "reset" THEN "OSError"
    ELSE "ok"

\* send / recv / recv_into / poll: assert self.conn_socket, then the socket call;
\* poll returns whether select found the socket readable.
ParentRaw(op) ==
    /\ lastCall' = Call("parent", op,
                        IF conn_socket = None THEN "InvalidState"
                        ELSE ConnectedResult(op, conn_socket),
                        op = "poll" /\ conn_socket # None /\ Readable(conn_socket),
                        ParentHasConn)
    /\ UNCHANGED <<listener_socket, conn_socket, socket, sockState, destroyed,
                   peer, backlog, pathExists, life, role>>

\* Mutant: close destroys the connection and keeps the reference to it.
ConnAfterCloseKept(raised) == conn_socket

\* self.conn_socket = None, reached when the destructor did not raise
ConnAfterClose(raised) == IF raised THEN conn_socket ELSE None

ParentClose ==
    LET k0 == Kernel
        k1 == IF listener_socket # None
              THEN psuedo_anon_uds_listener_destructor(k0, listener_socket) ELSE k0
        k2 == IF conn_socket # None
              THEN psuedo_anon_uds_client_destructor(k1, conn_socket) ELSE k1
    IN /\ life' = Closed("parent")
       /\ socket' = socket
       /\ IF k1.raised
          THEN /\ SetKernel(k1)
               /\ UNCHANGED <<listener_socket, conn_socket>>
               /\ lastCall' = Call("parent", "close", "OSError", FALSE, ParentHasConn)
          ELSE /\ SetKernel(k2)
               /\ listener_socket' = None
               /\ conn_socket' = ConnAfterClose(k2.raised)
               /\ lastCall' = Call("parent", "close",
                                   IF k2.raised THEN "OSError" ELSE "ok",
                                   FALSE, ParentHasConn)

\* ------------------------------------------------------------- RawDuctChild
\* The handle of the listening socket bound to the address, if there is one.
ListeningHandle(st) ==
    IF \E h \in Handles : st[h] = "listening"
    THEN CHOOSE h \in Handles : st[h] = "listening" ELSE None

\* self.socket = constructor() comes first; socket.connect raises when nothing
\* listens on the address, and blocks while the accept queue is full.
ChildConnect ==
    IF socket # None
    THEN /\ lastCall' = Call("child", "connect", "InvalidState", FALSE, ChildHasConn)
         /\ life' = Touched("child")
         /\ UNCHANGED <<listener_socket, conn_socket, socket, sockState, destroyed,
                        peer, backlog, pathExists, role>>
    ELSE /\ Fresh(sockState) # None
         /\ Len(backlog) <= ListenQueueDepth
         /\ LET h == Fresh(sockState)
                k1 == [psuedo_anon_uds_constructor(Kernel) EXCEPT !.kd[h] = "client"]
            IN /\ socket' = h
               /\ IF pathExists /\ ListeningHandle(sockState) # None
                  THEN /\ SetKernel([k1 EXCEPT !.st[h] = "connected", !.bl = Append(@, h)])
                       /\ lastCall' = Call("child", "connect", "ok", FALSE, FALSE)
                  ELSE /\ SetKernel(k1)
                       /\ lastCall' = Call("child", "connect", "OSError", FALSE, FALSE)
         /\ life' = Touched("child")
         /\ UNCHANGED <<listener_socket, conn_socket>>

\* What the socket call does on the child's socket, connected or not.
ChildSocketResult(op, h) ==
    IF sockState[h] = "unconn"
    THEN IF op = "poll" THEN "ok" ELSE "OSError"
    ELSE ConnectedResult(op, h)

\* send / recv / recv_into / poll: assert self.socket, then the socket call.
ChildRaw(op) ==
    /\ lastCall' = Call("child", op,
                        IF socket = None THEN "InvalidState"
                        ELSE ChildSocketResult(op, socket),
                        op = "poll" /\ socket # None /\ Readable(socket),
                        ChildHasConn)
    /\ UNCHANGED <<listener_socket, conn_socket, socket, sockState, destroyed,
                   peer, backlog, pathExists, life, role>>

ChildClose ==
    LET k1 == IF socket # None
              THEN psuedo_anon_uds_client_destructor(Kernel, socket) ELSE Kernel
    IN /\ life' = Closed("child")
       /\ SetKernel(k1)
       /\ socket' = IF k1.raised THEN socket ELSE None
       /\ lastCall' = Call("child", "close", IF k1.raised THEN "OSError" ELSE "ok",
                           FALSE, ChildHasConn)
       /\ UNCHANGED <<listener_socket, conn_socket>>

\* =========================================================== framing layer
\* Send calls made in one run, over all threads.
MaxSends == 2
\* Bytes a raw writer puts on the stream in one run.
MaxRawBytes == 6
\* Bytes the transport holds between the two sockets; a write blocks when full.
BufCap == 4

MAGIC_BYTE == 84

SendThreads == {"s1", "s2"}
RecvThreads == {"r1", "r2"}
Threads == SendThreads \cup RecvThreads
\* The duct each thread works on: the child sends, the parent receives.
DuctOf(t) == IF t \in SendThreads THEN "child" ELSE "parent"

\* Payloads: strings over the characters A (65) and the double quote (34).
Payloads == {<<>>, <<65>>, <<34>>, <<65, 34>>}
\* Bytes a raw writer may put on the stream.
RawBytes == {MAGIC_BYTE, 0, 1}

\* ---- json.dumps then utf-8 encode, for strings of ASCII characters
RECURSIVE JsonEscape(_)
JsonEscape(str) ==
    IF str = <<>> THEN <<>>
    ELSE (IF Head(str) \in {34, 92} THEN <<92, Head(str)>> ELSE <<Head(str)>>)
         \o JsonEscape(Tail(str))

default_serializer(payload) == <<34>> \o JsonEscape(payload) \o <<34>>

\* ---- utf-8 decode then json.loads: a string literal, or ValueError
RECURSIVE JsonUnescape(_)
\* The characters of a string literal's body; <<-1>> when it is malformed.
JsonUnescape(body) ==
    IF body = <<>> THEN <<>>
    ELSE IF Head(body) = 34 \/ Head(body) < 32 THEN <<-1>>
    ELSE IF Head(body) = 92
    THEN IF Len(body) >= 2 /\ body[2] \in {34, 92}
         THEN LET rest == JsonUnescape(Tail(Tail(body)))
              IN IF rest = <<-1>> THEN rest ELSE <<body[2]>> \o rest
         ELSE <<-1>>
    ELSE LET rest == JsonUnescape(Tail(body))
         IN IF rest = <<-1>> THEN rest ELSE <<Head(body)>> \o rest

Outcome(kind, value, expected, got) ==
    [kind |-> kind, value |-> value, expected |-> expected, got |-> got]
Value(v) == Outcome("value", v, 0, 0)
Raised(kind) == Outcome(kind, <<>>, 0, 0)
NoOutcome == Outcome("none", <<>>, 0, 0)

default_deserializer(bytes) ==
    IF Len(bytes) >= 2 /\ bytes[1] = 34 /\ bytes[Len(bytes)] = 34
    THEN LET str == JsonUnescape(SubSeq(bytes, 2, Len(bytes) - 1))
         IN IF str = <<-1>> THEN Raised("ValueError") ELSE Value(str)
    ELSE Raised("ValueError")

\* ---- struct.pack('!cL', MAGIC_BYTE, n) and struct.unpack('!L', b)
\* 'L' takes 0 <= n <= 2^32 - 1 and raises struct.error above; the limit is
\* tested on the high half, 2^32 being more than the checker's integers hold.
PackRaises(n) == n \div 65536 > 65535
PackLen(n) ==
    <<(n \div 16777216) % 256, (n \div 65536) % 256, (n \div 256) % 256, n % 256>>
UnpackLen(b) == b[1] * 16777216 + b[2] * 65536 + b[3] * 256 + b[4]
LenSize == 4

\* The same for a length given as two 16-bit halves, n = hi * 65536 + lo, which
\* covers the whole range of the field and the values above it.
PackRaisesHalves(hi, lo) == hi > 65535
\* Mutant: the four bytes in little-endian order ('<L').
PackHalvesLittleEndian(hi, lo) == <<lo % 256, lo \div 256, hi % 256, hi \div 256>>
PackHalves(hi, lo) == <<hi \div 256, hi % 256, lo \div 256, lo % 256>>
UnpackHalves(b) == [hi |-> b[1] * 256 + b[2], lo |-> b[3] * 256 + b[4]]

FullMessage(payload) ==
    <<MAGIC_BYTE>> \o PackLen(Len(default_serializer(payload))) \o default_serializer(payload)

\* ---- per-thread state
Idle == [pc |-> "idle", payload |-> <<>>, view |-> <<>>, buf |-> <<>>, need |-> 0,
         res |-> NoOutcome]

\* assert self.conn_socket / assert self.socket of the duct's raw calls
HasSocket(d) == IF d = "parent" THEN conn_socket # None ELSE socket # None
\* The writing end has shut down: reads past the last byte return nothing.
Eof == conn_socket # None /\ sockState[peer[conn_socket]] = "closed"

\* The ducts as create_psuedo_anonymous_duct_pair returns them: handle 1 was the
\* listener (bound, then destroyed by listen), 2 is the child's socket, 3 the
\* connection the parent accepted.
PairInit ==
    /\ listener_socket = None
    /\ conn_socket = 3
    /\ socket = 2
    /\ sockState = [h \in Handles |-> IF h = 1 THEN "closed"
                                      ELSE IF h \in {2, 3} THEN "connected" ELSE "fresh"]
    /\ destroyed = [h \in Handles |-> IF h = 1 THEN 1 ELSE 0]
    /\ peer = [h \in Handles |-> IF h = 2 THEN 3 ELSE IF h = 3 THEN 2 ELSE None]
    /\ backlog = <<>>
    /\ pathExists = FALSE
    /\ lastCall = Call("parent", "listen", "ok", TRUE, FALSE)
    /\ life = [d \in Ducts |-> "used"]
    /\ role = [h \in Handles |-> IF h = 1 THEN "listener" ELSE IF h = 2 THEN "client"
                                 ELSE IF h = 3 THEN "accepted" ELSE "none"]

FrameInit ==
    /\ mode \in {"framed", "raw"}
    /\ \E useLock \in BOOLEAN :
          lock = [d \in Ducts |-> IF useLock THEN "free" ELSE "absent"]
    /\ wire = <<>>
    /\ rpos = 0
    /\ th = [t \in Threads |-> Idle]
    /\ sendCalls = <<>>
    /\ senders = {}
    /\ recvLog = <<>>

FrameOff ==
    /\ mode = "off"
    /\ lock = [d \in Ducts |-> "absent"]
    /\ wire = <<>>
    /\ rpos = 0
    /\ th = [t \in Threads |-> Idle]
    /\ sendCalls = <<>>
    /\ senders = {}
    /\ recvLog = <<>>

\* Without a lock only one thread sends on the duct: two unlocked senders are
\* outside what send promises, and are run only by the scenarios that say so.
MaySend(t) == lock[DuctOf(t)] # "absent" \/ senders \subseteq {t} \/ conf.unlocked

\* Mutant: acquire() that does not wait for the holder.
CanAcquireHeld(l) == TRUE

\* The lock can be taken: there is none, or nobody holds it.
CanAcquire(l) == l \in {"absent", "free"}

\* Mutant: the view is cut one byte too far after a partial write.
ViewAfterSkips(view, bytes_sent) ==
    IF bytes_sent < Len(view) THEN SubSeq(view, bytes_sent + 2, Len(view)) ELSE <<>>

\* full_message_view[bytes_sent:]
ViewAfter(view, bytes_sent) == SubSeq(view, bytes_sent + 1, Len(view))

\* ---- MessageDuct.send
\* send(payload) is called: send_lock = self.lock
SendCall(t, payload) ==
    /\ mode = "framed"
    /\ th[t].pc = "idle"
    /\ Len(sendCalls) < MaxSends
    /\ MaySend(t)
    /\ th' = [th EXCEPT ![t] = [Idle EXCEPT !.pc = "acquire", !.payload = payload]]
    /\ sendCalls' = Append(sendCalls, [payload |-> payload, conn |-> HasSocket(DuctOf(t))])
    /\ senders' = senders \cup {t}
    /\ UNCHANGED <<mode, lock, wire, rpos, recvLog, lifeVars>>

\* Mutant: the lock is taken when it is free, and send goes on without it when
\* another thread holds it.
SendAcquireTryLock(t) ==
    /\ th[t].pc = "acquire"
    /\ lock' = IF lock[DuctOf(t)] = "free" THEN [lock EXCEPT ![DuctOf(t)] = t] ELSE lock
    /\ th' = [th EXCEPT ![t] =
                IF PackRaises(Len(default_serializer(th[t].payload)))
                THEN [@ EXCEPT !.pc = "release", !.res = Raised("StructError")]
                ELSE [@ EXCEPT !.pc = "write", !.view = FullMessage(th[t].payload)]]
    /\ UNCHANGED <<mode, wire, rpos, sendCalls, senders, recvLog, lifeVars>>

\* if send_lock: send_lock.acquire(); then serialize, pack, extend, memoryview
SendAcquire(t) ==
    /\ th[t].pc = "acquire"
    /\ CanAcquire(lock[DuctOf(t)])
    /\ lock' = IF lock[DuctOf(t)] = "absent" THEN lock
               ELSE [lock EXCEPT ![DuctOf(t)] = t]
    /\ th' = [th EXCEPT ![t] =
                IF PackRaises(Len(default_serializer(th[t].payload)))
                THEN [@ EXCEPT !.pc = "release", !.res = Raised("StructError")]
                ELSE IF FullMessage(th[t].payload) = <<>>
                THEN [@ EXCEPT !.pc = "release", !.res = Value(<<>>)]
                ELSE [@ EXCEPT !.pc = "write", !.view = FullMessage(th[t].payload)]]
    /\ UNCHANGED <<mode, wire, rpos, sendCalls, senders, recvLog, lifeVars>>

\* Mutant: one write only; send returns with whatever that write accepted.
SendWriteOnce(t, bytes_sent) ==
    /\ th[t].pc = "write"
    /\ IF ~HasSocket(DuctOf(t))
       THEN /\ th' = [th EXCEPT ![t] = [@ EXCEPT !.pc = "release",
                                                  !.res = Raised("InvalidState")]]
            /\ wire' = wire
       ELSE /\ bytes_sent >= 1
            /\ bytes_sent <= Len(th[t].view)
            /\ bytes_sent <= BufCap - InFlight
            /\ wire' = wire \o SubSeq(th[t].view, 1, bytes_sent)
            /\ th' = [th EXCEPT ![t] =
                        [@ EXCEPT !.pc = "release", !.view = <<>>, !.res = Value(<<>>)]]
    /\ UNCHANGED <<mode, lock, rpos, sendCalls, senders, recvLog, lifeVars>>

\* One turn of "while full_message_view": socket_duct.send accepts bytes_sent
\* bytes, at least one and no more than the transport has room for.
SendWrite(t, bytes_sent) ==
    /\ th[t].pc = "write"
    /\ IF ~HasSocket(DuctOf(t))
       THEN \* assert self.socket fails
            /\ th' = [th EXCEPT ![t] = [@ EXCEPT !.pc = "release",
                                                  !.res = Raised("InvalidState")]]
            /\ wire' = wire
       ELSE /\ bytes_sent >= 1
            /\ bytes_sent <= Len(th[t].view)
            /\ bytes_sent <= BufCap - InFlight
            /\ wire' = wire \o SubSeq(th[t].view, 1, bytes_sent)
            /\ th' = [th EXCEPT ![t] =
                        IF bytes_sent = Len(th[t].view)
                        THEN [@ EXCEPT !.pc = "release", !.view = <<>>, !.res = Value(<<>>)]
                        ELSE [@ EXCEPT !.view = ViewAfter(@, bytes_sent)]]
    /\ UNCHANGED <<mode, lock, rpos, sendCalls, senders, recvLog, lifeVars>>

\* finally: if send_lock: send_lock.release(); send returns or raises
SendRelease(t) ==
    /\ th[t].pc = "release"
    /\ t \in SendThreads
    /\ lock' = IF lock[DuctOf(t)] = "absent" THEN lock
               ELSE [lock EXCEPT ![DuctOf(t)] = "free"]
    /\ th' = [th EXCEPT ![t] = [Idle EXCEPT !.res = th[t].res]]
    /\ UNCHANGED <<mode, wire, rpos, sendCalls, senders, recvLog, lifeVars>>

\* The sending side calls close() while none of its threads is inside send
\* (closing under a running call is left to the caller to avoid).
SenderClose ==
    /\ mode = "framed"
    /\ socket # None
    /\ \A t \in SendThreads : th[t].pc = "idle"
    /\ ChildClose
    /\ UNCHANGED frameVars

\* ---- a peer that writes bytes on its socket duct itself, and may close
RawSend(b) ==
    /\ mode = "raw"
    /\ socket # None
    /\ Len(wire) < MaxRawBytes
    /\ InFlight < BufCap
    /\ wire' = Append(wire, b)
    /\ UNCHANGED <<mode, lock, rpos, th, sendCalls, senders, recvLog, lifeVars>>

RawClose ==
    /\ mode = "raw"
    /\ socket # None
    /\ ChildClose
    /\ UNCHANGED frameVars

\* ---- MessageDuct.recv
MaxRecvs == (IF mode = "raw" THEN MaxRawBytes ELSE MaxSends) + 1

\* recv() is called: recv_lock = self.lock
RecvCall(t) ==
    /\ mode \in {"framed", "raw"}
    /\ t \in RecvThreads
    /\ th[t].pc = "idle"
    /\ Len(recvLog) < MaxRecvs
    /\ th' = [th EXCEPT ![t] = [Idle EXCEPT !.pc = "acquire"]]
    /\ UNCHANGED <<mode, lock, wire, rpos, sendCalls, senders, recvLog, lifeVars>>

\* Mutant: recv takes the lock without waiting for the thread that holds it.
RecvAcquireNoWait(t) ==
    /\ t \in RecvThreads
    /\ th[t].pc = "acquire"
    /\ lock' = IF lock[DuctOf(t)] = "absent" THEN lock
               ELSE [lock EXCEPT ![DuctOf(t)] = t]
    /\ th' = [th EXCEPT ![t] = [@ EXCEPT !.pc = "magic"]]
    /\ UNCHANGED <<mode, wire, rpos, sendCalls, senders, recvLog, lifeVars>>

\* if recv_lock: recv_lock.acquire()
RecvAcquire(t) ==
    /\ t \in RecvThreads
    /\ th[t].pc = "acquire"
    /\ CanAcquire(lock[DuctOf(t)])
    /\ lock' = IF lock[DuctOf(t)] = "absent" THEN lock
               ELSE [lock EXCEPT ![DuctOf(t)] = t]
    /\ th' = [th EXCEPT ![t] = [@ EXCEPT !.pc = "magic"]]
    /\ UNCHANGED <<mode, wire, rpos, sendCalls, senders, recvLog, lifeVars>>

\* What a read of at most want bytes may return: between 1 and what is there,
\* 0 once the writer has closed and nothing is left; it blocks otherwise.
CanRead(n, want) ==
    \/ n >= 1 /\ n <= want /\ n <= InFlight
    \/ n = 0 /\ InFlight = 0 /\ Eof

\* Mutant: a zero-byte read ends the loop and what was read so far is returned.
ClosedMidMessageReturnsPartial(r) ==
    [r EXCEPT !.pc = "release", !.buf = <<>>, !.need = 0,
              !.res = default_deserializer(r.buf)]

\* raise RemoteDuctClosed: the call ends, whatever was read is dropped
ClosedMidMessage(r) ==
    [r EXCEPT !.pc = "release", !.buf = <<>>, !.need = 0, !.res = Raised("RemoteClosed")]

\* Mutant: a wrong leading byte is skipped and the next one is tried.
BadMagicResyncs(r, leading_byte) == r

\* leading_byte != MAGIC_BYTE: raise MessageProtocolException with both bytes
BadMagic(r, leading_byte) ==
    [r EXCEPT !.pc = "release",
              !.res = Outcome("ProtocolViolation", <<>>, MAGIC_BYTE, leading_byte)]

\* The payload is complete: return self.deserialize(serialized_payload)
Deserialized(r, bytes) ==
    [r EXCEPT !.pc = "release", !.buf = <<>>, !.need = 0,
              !.res = default_deserializer(bytes)]

\* Mutant: the payload buffer is allocated one byte longer than the length read.
LenStepOneMore(r, got) ==
    IF Len(got) < r.need THEN [r EXCEPT !.buf = got]
    ELSE [r EXCEPT !.pc = "payload", !.buf = <<>>, !.need = UnpackLen(got) + 1]

\* After a read into the length buffer: go round again while the view is not
\* used up; then unpack, allocate, and enter the payload loop (which a length
\* of 0 skips).
LenStep(r, got) ==
    IF Len(got) < r.need THEN [r EXCEPT !.buf = got]
    ELSE IF UnpackLen(got) = 0 THEN Deserialized(r, <<>>)
    ELSE [r EXCEPT !.pc = "payload", !.buf = <<>>, !.need = UnpackLen(got)]

\* Mutant: one read only, whatever it returned is taken for the payload.
PayloadStepNoLoop(r, got) == [r EXCEPT !.pc = "release", !.buf = <<>>, !.need = 0,
                                       !.res = default_deserializer(got)]

\* After a read into the payload buffer: go round again while the view is not
\* used up, then deserialize.
PayloadStep(r, got) ==
    IF Len(got) < r.need THEN [r EXCEPT !.buf = got] ELSE Deserialized(r, got)

\* leading_byte = self.socket_duct.recv(1), and the two tests on it
RecvMagic(t, n) ==
    /\ t \in RecvThreads
    /\ th[t].pc = "magic"
    /\ CanRead(n, 1)
    /\ rpos' = rpos + n
    /\ th' = [th EXCEPT ![t] =
                IF n = 0 THEN ClosedMidMessage(@)
                ELSE IF wire[rpos + 1] # MAGIC_BYTE THEN BadMagic(@, wire[rpos + 1])
                ELSE [@ EXCEPT !.pc = "len", !.buf = <<>>, !.need = LenSize]]
    /\ UNCHANGED <<mode, lock, wire, sendCalls, senders, recvLog, lifeVars>>

\* One turn of "while raw_payload_len_view"
RecvLen(t, n) ==
    /\ t \in RecvThreads
    /\ th[t].pc = "len"
    /\ CanRead(n, th[t].need - Len(th[t].buf))
    /\ rpos' = rpos + n
    /\ LET got == th[t].buf \o SubSeq(wire, rpos + 1, rpos + n)
       IN th' = [th EXCEPT ![t] = IF n = 0 THEN ClosedMidMessage(@) ELSE LenStep(@, got)]
    /\ UNCHANGED <<mode, lock, wire, sendCalls, senders, recvLog, lifeVars>>

\* One turn of "while serialized_payload_view"
RecvPayload(t, n) ==
    /\ t \in RecvThreads
    /\ th[t].pc = "payload"
    /\ CanRead(n, th[t].need - Len(th[t].buf))
    /\ rpos' = rpos + n
    /\ LET got == th[t].buf \o SubSeq(wire, rpos + 1, rpos + n)
       IN th' = [th EXCEPT ![t] = IF n = 0 THEN ClosedMidMessage(@) ELSE PayloadStep(@, got)]
    /\ UNCHANGED <<mode, lock, wire, sendCalls, senders, recvLog, lifeVars>>

\* Mutant: the lock is released on the way out of a normal return only.
RecvReleaseOnReturnOnly(t) ==
    /\ t \in RecvThreads
    /\ th[t].pc = "release"
    /\ lock' = IF lock[DuctOf(t)] = "absent" \/ th[t].res.kind # "value" THEN lock
               ELSE [lock EXCEPT ![DuctOf(t)] = "free"]
    /\ recvLog' = Append(recvLog, th[t].res)
    /\ th' = [th EXCEPT ![t] = [Idle EXCEPT !.res = th[t].res]]
    /\ UNCHANGED <<mode, wire, rpos, sendCalls, senders, lifeVars>>

\* finally: if recv_lock: recv_lock.release(); recv returns or raises
RecvRelease(t) ==
    /\ t \in RecvThreads
    /\ th[t].pc = "release"
    /\ lock' = IF lock[DuctOf(t)] = "absent" THEN lock
               ELSE [lock EXCEPT ![DuctOf(t)] = "free"]
    /\ recvLog' = Append(recvLog, th[t].res)
    /\ th' = [th EXCEPT ![t] = [Idle EXCEPT !.res = th[t].res]]
    /\ UNCHANGED <<mode, wire, rpos, sendCalls, senders, lifeVars>>

vars == <<frameVars, lifeVars, auxVars>>

\* The pair factory is not in use and no poll() is made.
NoPair == [pc |-> 0, listener_address |-> "none", connect_address |-> "none", res |-> "none"]
\* Two threads that send on the child, one that receives on the parent; no
\* duct without a lock is shared.
OneReceiver == [cast |-> {"s1", "s2", "r1"}, unlocked |-> FALSE]
NoTransfer == [t \in Threads |-> -1]
\* No payload length is under way.
NoLen == [hi |-> -1, lo |-> -1]
NoField == [hi |-> 0, lo |-> 0, spc |-> "off", view |-> <<>>, sres |-> "none",
            rpc |-> "off", buf |-> <<>>, rres |-> NoLen]
\* The threads of a pair used in both directions: the parent's sending and
\* receiving thread, and the child's.
DuplexThreads == {"ps", "pr", "cs", "cr"}
\* Both ducts connected, each with its own lock, nothing written, no call made.
DuplexIdle ==
    [lock |-> [d \in Ducts |-> "free"],
     th |-> [t \in DuplexThreads |-> Idle],
     wire |-> [d \in Ducts |-> <<>>],
     rpos |-> [d \in Ducts |-> 0],
     sends |-> [d \in Ducts |-> 0]]
Quiet ==
    /\ lenField = NoField
    /\ duplex = DuplexIdle
ExtraOff ==
    /\ conf = OneReceiver
    /\ xfer = NoTransfer
    /\ Quiet
AuxOff ==
    /\ pair = NoPair
    /\ polled = "none"
    /\ ExtraOff

Next ==
    \/ \E t \in SendThreads \cap conf.cast, payload \in Payloads :
          SendCall(t, payload) /\ UNCHANGED auxVars
    \/ \E t \in SendThreads : SendAcquire(t) /\ UNCHANGED auxVars
    \/ \E t \in SendThreads, bytes_sent \in 0..BufCap : SendWrite(t, bytes_sent) /\ UNCHANGED auxVars
    \/ \E t \in SendThreads : SendRelease(t) /\ UNCHANGED auxVars
    \/ SenderClose /\ UNCHANGED auxVars
    \/ \E b \in RawBytes : RawSend(b) /\ UNCHANGED auxVars
    \/ RawClose /\ UNCHANGED auxVars
    \/ \E t \in RecvThreads \cap conf.cast : RecvCall(t) /\ UNCHANGED auxVars
    \/ \E t \in RecvThreads : RecvAcquire(t) /\ UNCHANGED auxVars
    \/ \E t \in RecvThreads, n \in 0..1 : RecvMagic(t, n) /\ UNCHANGED auxVars
    \/ \E t \in RecvThreads, n \in 0..BufCap : RecvLen(t, n) /\ UNCHANGED auxVars
    \/ \E t \in RecvThreads, n \in 0..BufCap : RecvPayload(t, n) /\ UNCHANGED auxVars
    \/ \E t \in RecvThreads : RecvRelease(t) /\ UNCHANGED auxVars

Init == FrameInit /\ PairInit /\ AuxOff
Spec == Init /\ [][Next]_vars

\* ============================================================ pair factory
\* Mutant: the child is constructed and connected before the parent is bound.
PairProgramConnectsFirst ==
    <<"parent", "child", "connect", "bind", "listener_address", "listen", "return">>

\* The statements of create_psuedo_anonymous_duct_pair, in program order.
PairProgram ==
    <<"parent", "bind", "listener_address", "child", "connect", "listen", "return">>

\* The statement the factory is at.
Stmt == IF pair.res = "running" THEN PairProgram[pair.pc] ELSE "none"

\* Mutant: an exception raised by a call is swallowed and the factory goes on.
PairAfterGoesOn(res) == [pair EXCEPT !.pc = @ + 1]

\* A call that raises ends the factory with that exception; otherwise it goes
\* on with the next statement.
PairAfter(res) ==
    IF res = "ok" THEN [pair EXCEPT !.pc = @ + 1] ELSE [pair EXCEPT !.res = "raised"]

\* RawDuctParent.listener_address: the address the listener socket is or was
\* bound to; nothing before bind.
listener_address == IF \E h \in Handles : role[h] = "listener" THEN "path" ELSE "none"

\* parent = MessageDuctParent.psuedo_anonymous_parent_duct(...)
PairParent ==
    /\ Stmt = "parent"
    /\ listener_socket = None /\ conn_socket = None
    /\ pair' = PairAfter("ok")
    /\ UNCHANGED <<frameVars, lifeVars, polled, extraVars>>

\* parent.bind()
PairBind ==
    /\ Stmt = "bind"
    /\ ParentBind
    /\ pair' = PairAfter(lastCall'.res)
    /\ UNCHANGED <<frameVars, polled, extraVars>>

\* listener_address = parent.listener_address
PairAddress ==
    /\ Stmt = "listener_address"
    /\ pair' = [PairAfter("ok") EXCEPT !.listener_address = listener_address]
    /\ UNCHANGED <<frameVars, lifeVars, polled, extraVars>>

\* child = MessageDuctChild.psuedo_anonymous_child_duct(listener_address, ...)
PairChild ==
    /\ Stmt = "child"
    /\ socket = None
    /\ pair' = [PairAfter("ok") EXCEPT !.connect_address = pair.listener_address]
    /\ UNCHANGED <<frameVars, lifeVars, polled, extraVars>>

\* child.connect(): to the address the child was constructed with. With no
\* address to go to, the socket is constructed and connect raises.
PairConnect ==
    /\ Stmt = "connect"
    /\ IF pair.connect_address = "path"
       THEN ChildConnect
       ELSE /\ Fresh(sockState) # None
            /\ socket' = Fresh(sockState)
            /\ SetKernel([psuedo_anon_uds_constructor(Kernel)
                             EXCEPT !.kd[Fresh(sockState)] = "client"])
            /\ lastCall' = Call("child", "connect", "OSError", FALSE, FALSE)
            /\ life' = Touched("child")
            /\ UNCHANGED <<listener_socket, conn_socket>>
    /\ pair' = PairAfter(lastCall'.res)
    /\ UNCHANGED <<frameVars, polled, extraVars>>

\* parent.listen(): its return value is not looked at
PairListen(is_faulted) ==
    /\ Stmt = "listen"
    /\ ParentListen(is_faulted)
    /\ pair' = PairAfter(lastCall'.res)
    /\ UNCHANGED <<frameVars, polled, extraVars>>

\* return parent, child
PairReturn ==
    /\ Stmt = "return"
    /\ pair' = [pair EXCEPT !.res = "returned"]
    /\ UNCHANGED <<frameVars, lifeVars, polled, extraVars>>

\* The caller has the pair in hand.
Returned == pair.res = "returned"

\* ---- MessageDuctParent.poll: return self.socket_duct.poll(timeout)
\* Mutant: the readiness test is made by reading a byte.
RecvPollReads(t) ==
    /\ t \in RecvThreads
    /\ th[t].pc = "idle"
    /\ mode \in {"framed", "raw"}
    /\ ParentRaw("poll")
    /\ polled' = IF lastCall'.res = "ok" /\ lastCall'.ret THEN "ready" ELSE "not_ready"
    /\ rpos' = IF InFlight > 0 THEN rpos + 1 ELSE rpos
    /\ UNCHANGED <<mode, lock, wire, th, sendCalls, senders, recvLog, pair, extraVars>>

\* The thread that receives calls poll() between two recv calls.
RecvPoll(t) ==
    /\ t \in RecvThreads
    /\ th[t].pc = "idle"
    /\ mode \in {"framed", "raw"}
    /\ ParentRaw("poll")
    /\ polled' = IF lastCall'.res = "ok" /\ lastCall'.ret THEN "ready" ELSE "not_ready"
    /\ UNCHANGED <<frameVars, pair, extraVars>>

PairStart ==
    /\ LifeInit
    /\ FrameInit
    /\ pair = [NoPair EXCEPT !.pc = 1, !.res = "running"]
    /\ polled = "none"
    /\ ExtraOff

\* The factory runs; the pair it returned is then used as in Next, with poll().
PairNext ==
    \/ PairParent
    \/ PairBind
    \/ PairAddress
    \/ PairChild
    \/ PairConnect
    \/ \E is_faulted \in BOOLEAN : PairListen(is_faulted)
    \/ PairReturn
    \/ \E t \in SendThreads \cap conf.cast, payload \in Payloads :
          Returned /\ SendCall(t, payload) /\ UNCHANGED auxVars
    \/ \E t \in SendThreads : Returned /\ SendAcquire(t) /\ UNCHANGED auxVars
    \/ \E t \in SendThreads, bytes_sent \in 0..BufCap :
          Returned /\ SendWrite(t, bytes_sent) /\ UNCHANGED auxVars
    \/ \E t \in SendThreads : Returned /\ SendRelease(t) /\ UNCHANGED auxVars
    \/ Returned /\ SenderClose /\ UNCHANGED auxVars
    \/ \E b \in RawBytes : Returned /\ RawSend(b) /\ UNCHANGED auxVars
    \/ Returned /\ RawClose /\ UNCHANGED auxVars
    \/ \E t \in RecvThreads \cap conf.cast : Returned /\ RecvPoll(t)
    \/ \E t \in RecvThreads \cap conf.cast : Returned /\ RecvCall(t) /\ UNCHANGED auxVars
    \/ \E t \in RecvThreads : Returned /\ RecvAcquire(t) /\ UNCHANGED auxVars
    \/ \E t \in RecvThreads, n \in 0..1 : Returned /\ RecvMagic(t, n) /\ UNCHANGED auxVars
    \/ \E t \in RecvThreads, n \in 0..BufCap :
          Returned /\ RecvLen(t, n) /\ UNCHANGED auxVars
    \/ \E t \in RecvThreads, n \in 0..BufCap :
          Returned /\ RecvPayload(t, n) /\ UNCHANGED auxVars
    \/ \E t \in RecvThreads :
          Returned /\ RecvRelease(t) /\ polled' = "none" /\ UNCHANGED <<pair, extraVars>>

PairSpec == PairStart /\ [][PairNext]_vars


\* ================================================================= claims
\* The payloads of the send calls made on a connected duct, in call order.
Sent ==
    LET ok == SelectSeq(sendCalls, LAMBDA c : c.conn)
    IN [i \in 1..Len(ok) |-> ok[i].payload]

RECURSIVE ParseFrames(_)
\* The stream cut into frames: the payloads of the complete frames, what is
\* left after them (the head of a frame still being written), and whether a
\* byte other than the magic byte stands where a frame starts.
ParseFrames(w) ==
    IF w = <<>> THEN [frames |-> <<>>, rest |-> <<>>, bad |-> FALSE]
    ELSE IF w[1] # MAGIC_BYTE THEN [frames |-> <<>>, rest |-> w, bad |-> TRUE]
    ELSE IF Len(w) < 1 + LenSize THEN [frames |-> <<>>, rest |-> w, bad |-> FALSE]
    ELSE LET n == UnpackLen(SubSeq(w, 2, 1 + LenSize))
         IN IF Len(w) < 1 + LenSize + n THEN [frames |-> <<>>, rest |-> w, bad |-> FALSE]
            ELSE LET p == ParseFrames(SubSeq(w, 2 + LenSize + n, Len(w)))
                 IN [p EXCEPT !.frames = <<SubSeq(w, 2 + LenSize, 1 + LenSize + n)>> \o @]

\* How many entries of seq equal x.
Count(seq, x) == Cardinality({i \in 1..Len(seq) : seq[i] = x})

\* C1. Round trip: on a connected pair, one send(P) followed by one recv() on
\* the peer returns a value equal to P, however the transport splits the bytes
\* of the frame over writes and reads.
RoundTrip ==
    (mode = "framed" /\ Len(Sent) = 1 /\ Len(recvLog) >= 1)
        => recvLog[1] = Value(Sent[1])

\* The payload A" (its frame is the longest: 5 bytes of header, 5 of body, so it
\* cannot pass the transport in one piece) has been sent and received.
RoundTripWitness ==
    /\ mode = "framed"
    /\ Sent = << <<65, 34>> >>
    /\ recvLog = << Value(<<65, 34>>) >>

\* C2. Ordering: with a single sending thread, the i-th recv() on the peer
\* returns the payload of the i-th send, complete; a recv past the last send
\* ends only when the sender has closed, with RemoteClosed.
Ordering ==
    (mode = "framed" /\ Cardinality(senders) <= 1)
        => \A i \in 1..Len(recvLog) :
              recvLog[i] = IF i <= Len(Sent) THEN Value(Sent[i]) ELSE Raised("RemoteClosed")

OrderingWitness ==
    /\ mode = "framed"
    /\ Cardinality(senders) = 1
    /\ Len(Sent) = 2
    /\ Sent[1] # Sent[2]
    /\ recvLog = <<Value(Sent[1]), Value(Sent[2])>>

\* C3. Multi-writer safety: when the threads sharing a duct send under its
\* lock, the stream is a concatenation of whole frames, one per send (plus the
\* head of the frame the lock holder is writing); once every send has returned
\* there are exactly as many frames as sends, with the same payloads, and the
\* peer receives them one by one, each equal to a sent payload.
MultiWriterSafety ==
    (mode = "framed" /\ lock["child"] # "absent")
        => LET p == ParseFrames(wire)
               got == [i \in 1..Len(p.frames) |-> default_deserializer(p.frames[i])]
           IN /\ ~p.bad
              /\ \A x \in Payloads : Count(got, Value(x)) <= Count(Sent, x)
              /\ \A i \in 1..Len(got) : got[i].kind = "value"
              /\ p.rest # <<>> =>
                    \E t \in SendThreads :
                        /\ lock["child"] = t
                        /\ th[t].pc = "write"
                        /\ p.rest \o th[t].view = FullMessage(th[t].payload)
              /\ (\A t \in SendThreads : th[t].pc = "idle") =>
                    /\ p.rest = <<>>
                    /\ Len(got) = Len(Sent)
                    /\ \A x \in Payloads : Count(got, Value(x)) = Count(Sent, x)
              /\ \A i \in 1..Len(recvLog) :
                    recvLog[i] = IF i <= Len(got) THEN got[i] ELSE Raised("RemoteClosed")

\* Both threads have sent, with different payloads, and both frames were received.
MultiWriterWitness ==
    /\ mode = "framed"
    /\ lock["child"] # "absent"
    /\ senders = SendThreads
    /\ \A t \in SendThreads : th[t].pc = "idle"
    /\ Len(Sent) = 2
    /\ Sent[1] # Sent[2]
    /\ Len(recvLog) = 2
    /\ \A i \in 1..2 : recvLog[i].kind = "value"

\* A receiving thread is inside one of recv's three reads.
Reading(t) == th[t].pc \in {"magic", "len", "payload"}

\* C4. Remote-closed detection: a read inside recv that returns no byte (the
\* peer has closed and nothing is left), before the magic byte, inside the
\* length or inside the payload, ends that recv with RemoteClosed: no value is
\* returned and no further read is made.
RemoteClosedDetection ==
    [][\A t \in RecvThreads :
          (Reading(t) /\ InFlight = 0 /\ Eof /\ th'[t] # th[t])
              => /\ th'[t].pc = "release"
                 /\ th'[t].res = Raised("RemoteClosed")
                 /\ rpos' = rpos]_vars

\* The peer wrote a header announcing 256 bytes and one byte of payload, then
\* closed; the recv that read them ended with RemoteClosed.
RemoteClosedWitness ==
    /\ mode = "raw"
    /\ wire = <<MAGIC_BYTE, 0, 0, 1, 0, 1>>
    /\ rpos = Len(wire)
    /\ recvLog = << Raised("RemoteClosed") >>

\* C5. Fault on bad magic: when the first byte recv reads is not the magic
\* byte, recv ends with ProtocolViolation carrying the expected and the actual
\* byte, has consumed that one byte only, and reads nothing more.
FaultOnBadMagic ==
    [][\A t \in RecvThreads :
          /\ (th[t].pc = "magic" /\ rpos' # rpos /\ wire[rpos + 1] # MAGIC_BYTE)
                => /\ th'[t].pc = "release"
                   /\ th'[t].res = Outcome("ProtocolViolation", <<>>, MAGIC_BYTE, wire[rpos + 1])
                   /\ rpos' = rpos + 1
          /\ (th[t].pc = "release" /\ th[t].res.kind = "ProtocolViolation")
                => rpos' = rpos]_vars

\* A frame that starts with 1: recv failed on it with (expected 84, got 1), and
\* the bytes behind it are still unread.
BadMagicWitness ==
    /\ mode = "raw"
    /\ recvLog = << Outcome("ProtocolViolation", <<>>, MAGIC_BYTE, 1) >>
    /\ rpos = 1
    /\ InFlight >= 2

LifeStart == LifeInit /\ FrameOff /\ AuxOff

LifeNext ==
    \/ ParentBind /\ UNCHANGED <<frameVars, auxVars>>
    \/ \E is_faulted \in BOOLEAN : ParentListen(is_faulted) /\ UNCHANGED <<frameVars, auxVars>>
    \/ \E op \in RawOps : ParentRaw(op) /\ UNCHANGED <<frameVars, auxVars>>
    \/ ParentClose /\ UNCHANGED <<frameVars, auxVars>>
    \/ ChildConnect /\ UNCHANGED <<frameVars, auxVars>>
    \/ \E op \in RawOps : ChildRaw(op) /\ UNCHANGED <<frameVars, auxVars>>
    \/ ChildClose /\ UNCHANGED <<frameVars, auxVars>>

LifeSpec == LifeStart /\ [][LifeNext]_vars

\* ------------------------------------------------ claims on the transport
\* The duct is bound, awaiting a peer, or connected.
Active(d) ==
    IF d = "parent"
    THEN \/ listener_socket # None /\ sockState[listener_socket] = "listening"
         \/ conn_socket # None
    ELSE socket # None /\ sockState[socket] = "connected"

\* The duct's socket references.
refs == <<listener_socket, conn_socket, socket>>

\* C6. Clean shutdown: once close() has been called on both ends (and on no
\* end anything since), the path the listener was bound to does not exist,
\* whether a peer was accepted or not.
CleanShutdown ==
    (life["parent"] = "closed" /\ life["child"] = "closed") => ~pathExists

\* Both ends closed; the parent was bound and never accepted a peer, so it is
\* its close() that destroyed the listener.
CleanShutdownWitness ==
    /\ life["parent"] = "closed"
    /\ life["child"] = "closed"
    /\ lastCall = Call("parent", "close", "ok", FALSE, FALSE)
    /\ \E h \in Handles : role[h] = "listener" /\ destroyed[h] = 1
    /\ \A h \in Handles : role[h] # "accepted"

\* C7. close() is safe and idempotent: in every state of either duct close()
\* returns without raising, and a close() right after a close() of the same
\* duct changes nothing and calls no destructor.
CloseSafeAndIdempotent ==
    [][(lastCall'.op = "close" /\ <<lastCall, refs, sockState, destroyed>>' #
                                   <<lastCall, refs, sockState, destroyed>>)
          => /\ lastCall'.res = "ok"
             /\ (lastCall.op = "close" /\ lastCall.who = lastCall'.who)
                   => UNCHANGED <<refs, sockState, destroyed, pathExists>>]_vars

WrongStateCallsFail ==
    [][(/\ lastCall' # lastCall
        /\ \/ lastCall'.op \in RawOps /\ ~lastCall'.hadConn
           \/ lastCall'.op = "bind" /\ lastCall'.hadConn)
          => /\ lastCall'.res = "InvalidState"
             /\ UNCHANGED refs]_vars

\* C10. listen timeout: a listen() that ends because the wait timed out returns
\* false; the duct has no connection and its listener is bound and listening on
\* the address; a listener that was bound before the call is the same socket,
\* untouched, with its accept queue, and no destructor has run.
ListenTimeout ==
    [][(/\ lastCall' = Call("parent", "listen", "ok", FALSE, FALSE)
        /\ <<lastCall, refs, sockState>>' # <<lastCall, refs, sockState>>)
          => /\ conn_socket' = None
             /\ listener_socket' # None
             /\ sockState'[listener_socket'] = "listening"
             /\ pathExists'
             /\ destroyed' = destroyed
             /\ UNCHANGED <<socket, backlog, peer>>
             /\ listener_socket # None
                   => UNCHANGED <<listener_socket, sockState, pathExists, role>>
             /\ listener_socket = None
                   => \A h \in Handles \ {listener_socket'} : sockState'[h] = sockState[h]]_vars

\* A listen() on a bound duct has just timed out; the listener is still there.
ListenTimeoutWitness ==
    /\ lastCall = Call("parent", "listen", "ok", FALSE, FALSE)
    /\ listener_socket # None
    /\ sockState[listener_socket] = "listening"
    /\ conn_socket = None
    /\ pathExists

\* ------------------------------------------------ claims on the pair factory
\* C11. Pair factory postcondition: when create_psuedo_anonymous_duct_pair has
\* returned (and close() was called on neither end since), the parent holds an
\* accepted connection socket, the child holds a connected socket, the two are
\* the ends of one connection, and a send on either end is valid; right at the
\* return the ducts are in the state PairInit describes.
PairPostcondition ==
    /\ (Returned /\ \A d \in Ducts : life[d] = "used")
          => /\ conn_socket # None
             /\ role[conn_socket] = "accepted"
             /\ sockState[conn_socket] = "connected"
             /\ socket # None
             /\ sockState[socket] = "connected"
             /\ peer[conn_socket] = socket
             /\ peer[socket] = conn_socket
             /\ ConnectedResult("send", conn_socket) = "ok"
             /\ ChildSocketResult("send", socket) = "ok"
             /\ \A i \in 1..Len(sendCalls) : sendCalls[i].conn
    /\ (Returned /\ lastCall.op \notin {"poll", "close"}) => PairInit

\* The factory returned, and the first thing done with the pair was a send
\* that the other end received.
PairPostconditionWitness ==
    /\ Returned
    /\ \A d \in Ducts : life[d] = "used"
    /\ lastCall.op = "listen"
    /\ Len(Sent) = 1
    /\ recvLog = << Value(Sent[1]) >>

\* The parent's listener is bound and listening on its address.
ListenerUp ==
    /\ listener_socket # None
    /\ sockState[listener_socket] = "listening"
    /\ pathExists

\* C12. Pair factory ordering: the child is constructed when the parent's bind
\* has completed and the listening address has been read, with that address;
\* the child's connect is made while the listener is up and before the parent
\* has accepted, so it finds a listener and does not raise; the parent's
\* listen comes after that connect.
PairOrdering ==
    [][pair.res = "running" =>
          /\ pair'.listener_address # pair.listener_address => ListenerUp
          /\ (Stmt = "child" /\ pair' # pair)
                => /\ ListenerUp
                   /\ pair.listener_address = "path"
                   /\ pair'.connect_address = "path"
          /\ (lastCall'.op = "connect" /\ lastCall' # lastCall)
                => /\ ListenerUp
                   /\ conn_socket = None
                   /\ lastCall.op = "bind"
                   /\ lastCall'.res = "ok"
          /\ (lastCall'.op = "listen" /\ lastCall' # lastCall)
                => /\ lastCall = Call("child", "connect", "ok", FALSE, FALSE)
                   /\ backlog = <<socket>>]_vars

\* The factory is about to call listen: the child's connect has succeeded and
\* waits in the accept queue of the listener bound before it.
PairOrderingWitness ==
    /\ Stmt = "listen"
    /\ ListenerUp
    /\ lastCall = Call("child", "connect", "ok", FALSE, FALSE)
    /\ backlog = <<socket>>
    /\ pair.connect_address = "path"

\* --------------------------------------------------- claims on poll and send
\* C13. poll() on a framing duct returns True only when a message is waiting:
\* the recv() called right after a poll() that returned True returns a message;
\* it does not fail with RemoteClosed, and it does not come to wait for the
\* rest of a frame.
PollTrueMeansMessage ==
    \A t \in RecvThreads :
        (mode = "framed" /\ polled = "ready")
            => /\ th[t].pc = "release" => th[t].res.kind = "value"
               /\ Reading(t) => (InFlight > 0 \/ Eof)

\* The last n bytes the transport has accepted.
WireTail(n) == SubSeq(wire, Len(wire) - n + 1, Len(wire))

\* C14. Whole-frame send: while send(P) is writing, what it has handed to the
\* transport so far followed by what it still holds is the frame magic ||
\* length || serialize(P), whatever the partial-write counts were; when send
\* returns normally nothing is left unwritten and the bytes it handed over are
\* exactly that frame, contiguous and in order.
WholeFrameSend ==
    \A t \in SendThreads :
        LET frame == FullMessage(th[t].payload)
            written == Len(frame) - Len(th[t].view)
        IN /\ th[t].pc = "write"
                 => /\ th[t].view # <<>>
                    /\ written <= Len(wire)
                    /\ WireTail(written) \o th[t].view = frame
           /\ (th[t].pc = "release" /\ th[t].res.kind = "value")
                 => /\ th[t].view = <<>>
                    /\ Len(frame) <= Len(wire)
                    /\ WireTail(Len(frame)) = frame

\* A send of A" (a frame of 10 bytes, over a transport that takes 4 at most at
\* a time) is returning normally.
WholeFrameSendWitness ==
    \E t \in SendThreads :
        /\ th[t].pc = "release"
        /\ th[t].res.kind = "value"
        /\ th[t].payload = <<65, 34>>
        /\ Len(FullMessage(th[t].payload)) > 2 * BufCap

\* ------------------------------------------- claims on bind, listen, connect
\* What the kernel holds for the sockets, and the duct's references to them.
sockets == <<refs, sockState, destroyed, peer, backlog, pathExists, role>>

\* C15. listen() is idempotent relative to an existing connection: called on
\* a server duct that holds a connection it returns True without raising,
\* accepts nothing, and changes nothing.
ListenIdempotentWhenConnected ==
    [][(lastCall'.op = "listen" /\ lastCall' # lastCall /\ conn_socket # None)
          => /\ lastCall'.res = "ok"
             /\ lastCall'.ret
             /\ UNCHANGED sockets]_vars

\* The listener sockets constructed so far.
Listeners(kinds) == {h \in Handles : kinds[h] = "listener"}

\* C16. bind() is idempotent: on a duct that is bound already it constructs
\* no socket and leaves the listener, its accept queue and its path as they
\* are; listen() on an unbound duct binds first; and as long as close() was
\* not called, bind and listen calls have constructed one listener at most.
BindIdempotent ==
    [][/\ (lastCall'.op = "bind" /\ lastCall' # lastCall /\ listener_socket # None)
             => UNCHANGED sockets
       /\ (/\ lastCall'.op = "listen" /\ lastCall' # lastCall
           /\ listener_socket = None /\ conn_socket = None)
             => /\ Cardinality(Listeners(role')) = Cardinality(Listeners(role)) + 1
                /\ lastCall'.res = "ok" => (listener_socket' # None \/ conn_socket' # None)
       /\ life'["parent"] \in {"new", "used"}
             => Cardinality(Listeners(role')) <= 1]_vars

\* bind() has returned on a duct whose listener already has a client waiting:
\* the duct was bound before this call.
BindIdempotentWitness ==
    /\ lastCall = Call("parent", "bind", "ok", FALSE, FALSE)
    /\ life["parent"] = "used"
    /\ listener_socket # None
    /\ backlog # <<>>

\* C17. Listener fault: a listen() that finds the listener exceptionally ready
\* destroys the listener (closed, its path unlinked) and fails with
\* CommunicationFault; it accepts no connection, also when clients were
\* waiting in the accept queue: they are dropped with the listener.
ListenerFault ==
    [][(/\ lastCall' = Call("parent", "listen", "CommunicationFault", FALSE, FALSE)
        /\ <<lastCall, sockets>>' # <<lastCall, sockets>>)
          => /\ listener_socket' # None
             /\ role'[listener_socket'] = "listener"
             /\ sockState'[listener_socket'] = "closed"
             /\ destroyed'[listener_socket'] = 1
             /\ ~pathExists'
             /\ conn_socket = None /\ conn_socket' = None
             /\ \A h \in Handles : role'[h] = "accepted" => role[h] = "accepted"
             /\ peer' = peer
             /\ backlog' = <<>>
             /\ \A i \in 1..Len(backlog) : sockState'[backlog[i]] \in {"reset", "closed"}
             /\ socket' = socket]_vars

\* listen() has just failed on a listener fault while the child was waiting
\* to be accepted: the child's connection is gone and the parent has none.
ListenerFaultWitness ==
    /\ lastCall = Call("parent", "listen", "CommunicationFault", FALSE, FALSE)
    /\ conn_socket = None
    /\ socket # None
    /\ sockState[socket] = "reset"
    /\ ~pathExists

\* The child's connect() has just failed in the transport.
ConnectFailed(call) ==
    /\ call.who = "child"
    /\ call.op = "connect"
    /\ call.res \notin {"ok", "InvalidState"}

\* C18. Connect failure: a connect() whose transport connect fails ends with
\* CommunicationFault and leaves the client duct not connected, without a
\* socket: the send or recv that follows fails with InvalidStateError, and the
\* connect() that follows is let through to try again.
ConnectFailure ==
    [][/\ (ConnectFailed(lastCall') /\ lastCall' # lastCall)
             => /\ lastCall'.res = "CommunicationFault"
                /\ socket' = None
       /\ (ConnectFailed(lastCall) /\ lastCall'.who = "child" /\ lastCall' # lastCall)
             => /\ lastCall'.op \in {"send", "recv", "recv_into"}
                      => lastCall'.res = "InvalidState"
                /\ lastCall'.op = "connect" => lastCall'.res # "InvalidState"]_vars

\* C19. poll() does not consume: a poll() on a connected duct takes no byte
\* off the incoming stream and changes nothing of the duct, its sockets, its
\* lock or a call in progress, so a recv() that follows finds what it would
\* have found without the poll.
PollDoesNotConsume ==
    [][(/\ lastCall'.op = "poll"
        /\ polled' # "none"
        /\ lastCall' # lastCall \/ polled' # polled)
          => UNCHANGED <<wire, rpos, th, lock, recvLog, sendCalls, sockets>>]_vars

\* A poll() found the duct readable and the recv() after it has read a whole
\* message off the stream.
PollDoesNotConsumeWitness ==
    /\ polled = "ready"
    /\ lastCall = Call("parent", "poll", "ok", TRUE, TRUE)
    /\ \E t \in RecvThreads : th[t].pc = "release" /\ th[t].res.kind = "value"
    /\ rpos = Len(wire)
    /\ rpos > 0

\* C20. Single-use listener: between calls a server duct never holds a
\* listener socket and a connection socket together; while it holds a
\* connection its listener reference is cleared, the listener it accepted on
\* is closed and its path is gone.
SingleUseListener ==
    /\ ~(listener_socket # None /\ conn_socket # None)
    /\ conn_socket # None
          => /\ listener_socket = None
             /\ \A h \in Listeners(role) : sockState[h] = "closed" /\ destroyed[h] >= 1
             /\ ~pathExists

\* listen() has just accepted the child's connection.
SingleUseListenerWitness ==
    /\ lastCall = Call("parent", "listen", "ok", TRUE, FALSE)
    /\ conn_socket # None
    /\ role[conn_socket] = "accepted"
    /\ peer[conn_socket] = socket
    /\ listener_socket = None

\* ------------------------------------------------- claims on frames and loops
\* The bytes the receiving socket has handed out.
Consumed == SubSeq(wire, 1, rpos)

\* The call read a whole frame: it returned, or its deserializer raised.
WholeFrameRead(o) == o.kind \in {"value", "ValueError"}

RECURSIVE FramesSize(_)
\* The bytes the frames take on the stream: 5 of header and the payload, each.
FramesSize(frames) ==
    IF frames = <<>> THEN 0
    ELSE 1 + LenSize + Len(Head(frames)) + FramesSize(Tail(frames))

\* C21. Frame alignment: as long as every recv() so far has read a whole
\* frame (none has failed on the magic byte or on a closed peer), the bytes consumed are the frames of those calls, 5 + N bytes each
\* with N the value of the length field, whatever the reads returned piece by
\* piece: between calls the stream position is at a frame boundary, and inside
\* a call it is 1 (magic), 1..4 (length) or 5..5+N-1 bytes into the frame.
FrameAlignment ==
    (/\ \A i \in 1..Len(recvLog) : WholeFrameRead(recvLog[i])
     /\ \A t \in RecvThreads : th[t].pc = "release" => WholeFrameRead(th[t].res))
        => LET p == ParseFrames(Consumed)
           IN \A t \in RecvThreads \cap conf.cast :
                 /\ ~p.bad
                 /\ rpos = FramesSize(p.frames) + Len(p.rest)
                 /\ th[t].pc \in {"idle", "acquire", "magic"}
                       => /\ p.rest = <<>>
                          /\ Len(p.frames) = Len(recvLog)
                          /\ \A i \in 1..Len(recvLog) :
                                recvLog[i] = default_deserializer(p.frames[i])
                 /\ (th[t].pc = "release" /\ WholeFrameRead(th[t].res))
                       => /\ p.rest = <<>>
                          /\ Len(p.frames) = Len(recvLog) + 1
                          /\ th[t].res = default_deserializer(p.frames[Len(p.frames)])
                 /\ th[t].pc = "len"
                       => /\ Len(p.frames) = Len(recvLog)
                          /\ p.rest = <<MAGIC_BYTE>> \o th[t].buf
                          /\ Len(th[t].buf) < LenSize
                 /\ th[t].pc = "payload"
                       => /\ Len(p.frames) = Len(recvLog)
                          /\ Len(p.rest) = 1 + LenSize + Len(th[t].buf)
                          /\ UnpackLen(SubSeq(p.rest, 2, 1 + LenSize)) = th[t].need
                          /\ Len(th[t].buf) < th[t].need

\* Two frames with payloads of different lengths were received, and the
\* stream position is the sum of their sizes.
FrameAlignmentWitness ==
    /\ mode = "framed"
    /\ Len(recvLog) = 2
    /\ recvLog[1].kind = "value" /\ recvLog[2].kind = "value"
    /\ Len(recvLog[1].value) # Len(recvLog[2].value)
    /\ rpos = Len(wire)
    /\ rpos = FramesSize(ParseFrames(wire).frames)

\* The thread is between acquire() and release() of its call.
InsideLock(t) == th[t].pc \in {"write", "magic", "len", "payload", "release"}

NoDoubleDestruction ==
    \A h \in Handles :
        /\ destroyed[h] <= 1
        /\ destroyed[h] >= 1 => h \notin {listener_socket, conn_socket, socket}

\* ====================================================== partial I/O loops
\* The framing steps with the amount each transport call of a loop transferred
\* kept in xfer (-1: no transport call made in the call so far), for one
\* sending and one receiving thread.
OneEach == [cast |-> {"s1", "r1"}, unlocked |-> FALSE]

\* The transport call of a loop turn returned n.
Transferred(t, n) ==
    /\ xfer' = [xfer EXCEPT ![t] = n]
    /\ UNCHANGED <<pair, polled, conf, lenField, duplex>>

\* bytes_sent = self.socket_duct.send(full_message_view) returned 0:
\* full_message_view[0:] is the same view, and "while full_message_view" goes
\* round again.
SendWriteZero(t) ==
    /\ th[t].pc = "write"
    /\ HasSocket(DuctOf(t))
    /\ Transferred(t, 0)
    /\ UNCHANGED <<frameVars, lifeVars>>

LoopInit ==
    /\ FrameInit
    /\ PairInit
    /\ pair = NoPair
    /\ polled = "none"
    /\ conf = OneEach
    /\ xfer = NoTransfer
    /\ Quiet

LoopNext ==
    \/ \E t \in SendThreads \cap conf.cast, payload \in Payloads :
          SendCall(t, payload) /\ UNCHANGED auxVars
    \/ \E t \in SendThreads : SendAcquire(t) /\ UNCHANGED auxVars
    \/ \E t \in SendThreads, bytes_sent \in 1..BufCap :
          /\ SendWrite(t, bytes_sent)
          /\ Transferred(t, IF HasSocket(DuctOf(t)) THEN bytes_sent ELSE -1)
    \/ \E t \in SendThreads : SendWriteZero(t)
    \/ \E t \in SendThreads : SendRelease(t) /\ Transferred(t, -1)
    \/ SenderClose /\ UNCHANGED auxVars
    \/ \E b \in RawBytes : RawSend(b) /\ UNCHANGED auxVars
    \/ RawClose /\ UNCHANGED auxVars
    \/ \E t \in RecvThreads \cap conf.cast : RecvCall(t) /\ UNCHANGED auxVars
    \/ \E t \in RecvThreads : RecvAcquire(t) /\ UNCHANGED auxVars
    \/ \E t \in RecvThreads, n \in 0..1 : RecvMagic(t, n) /\ UNCHANGED auxVars
    \/ \E t \in RecvThreads, n \in 0..BufCap : RecvLen(t, n) /\ Transferred(t, n)
    \/ \E t \in RecvThreads, n \in 0..BufCap : RecvPayload(t, n) /\ Transferred(t, n)
    \/ \E t \in RecvThreads : RecvRelease(t) /\ Transferred(t, -1)

LoopSpec == LoopInit /\ [][LoopNext]_vars

\* The loop a thread is in, and what its cursor has left to transfer.
InLoop(t) == th[t].pc \in {"write", "len", "payload"}
Remaining(r) == IF r.pc = "write" THEN Len(r.view) ELSE r.need - Len(r.buf)

\* C22. Partial-I/O loop termination: every turn of the write loop of send
\* and of the length and payload loops of recv makes one transport call and
\* moves the cursor on by the amount that call transferred; the loop ends when
\* the whole amount has been transferred, and when the transport reports zero
\* bytes the call ends with RemoteClosed: no loop goes round again after a
\* transfer of zero bytes.
PartialIOLoops ==
    [][\A t \in Threads :
          (InLoop(t) /\ HasSocket(DuctOf(t)) /\ (th'[t] # th[t] \/ xfer'[t] # xfer[t]))
             => /\ xfer'[t] \in 0..Remaining(th[t])
                /\ IF xfer'[t] = 0
                   THEN th'[t].pc = "release" /\ th'[t].res.kind = "RemoteClosed"
                   ELSE IF xfer'[t] = Remaining(th[t])
                   THEN th'[t].pc # th[t].pc
                   ELSE /\ th'[t].pc = th[t].pc
                        /\ Remaining(th'[t]) = Remaining(th[t]) - xfer'[t]
                /\ IF th[t].pc = "write"
                   THEN wire' = wire \o SubSeq(th[t].view, 1, xfer'[t]) /\ rpos' = rpos
                   ELSE rpos' = rpos + xfer'[t] /\ wire' = wire]_vars

\* ================================================ ducts shared without a lock
\* The framing steps where two threads may send on a duct that was constructed
\* without a lock (lock=None) as well as on one that has a lock.
SharedAnyway == [cast |-> {"s1", "s2", "r1"}, unlocked |-> TRUE]

FreeInit ==
    /\ FrameInit
    /\ mode = "framed"
    /\ PairInit
    /\ pair = NoPair
    /\ polled = "none"
    /\ conf = SharedAnyway
    /\ xfer = NoTransfer
    /\ Quiet

\* The payloads the two threads send: the empty string and A.
ShortPayloads == {<<>>, <<65>>}

\* Each of the two threads sends one message; the peer receives.
FreeNext ==
    \/ \E t \in (SendThreads \cap conf.cast) \ senders, payload \in ShortPayloads :
          SendCall(t, payload) /\ UNCHANGED auxVars
    \/ \E t \in SendThreads : SendAcquire(t) /\ UNCHANGED auxVars
    \/ \E t \in SendThreads, bytes_sent \in 0..BufCap : SendWrite(t, bytes_sent) /\ UNCHANGED auxVars
    \/ \E t \in SendThreads : SendRelease(t) /\ UNCHANGED auxVars
    \/ \E t \in RecvThreads \cap conf.cast : RecvCall(t) /\ UNCHANGED auxVars
    \/ \E t \in RecvThreads : RecvAcquire(t) /\ UNCHANGED auxVars
    \/ \E t \in RecvThreads, n \in 0..1 : RecvMagic(t, n) /\ UNCHANGED auxVars
    \/ \E t \in RecvThreads, n \in 0..BufCap : RecvLen(t, n) /\ UNCHANGED auxVars
    \/ \E t \in RecvThreads, n \in 0..BufCap : RecvPayload(t, n) /\ UNCHANGED auxVars
    \/ \E t \in RecvThreads : RecvRelease(t) /\ UNCHANGED auxVars

FreeSpec == FreeInit /\ [][FreeNext]_vars

\* A sender has written a part of its frame and bytes of another send follow
\* that part on the stream.
Interleaved ==
    \E t \in SendThreads :
        LET frame == FullMessage(th[t].payload)
            written == Len(frame) - Len(th[t].view)
        IN /\ th[t].pc = "write"
           /\ written > 0
           /\ WireTail(written) # SubSeq(frame, 1, written)

\* A recv on the peer has ended with something other than a sent payload (or
\* RemoteClosed after the sender closed).
Corrupted ==
    \E i \in 1..Len(recvLog) :
        \/ recvLog[i].kind \in {"ProtocolViolation", "ValueError"}
        \/ recvLog[i].kind = "value" /\ Count(Sent, recvLog[i].value) = 0

\* C24. The lock is the only protection: on a duct that has a lock no state is
\* reachable in which the bytes of two sends are interleaved on the stream or
\* the peer's recv has read a corrupted stream, with two threads sending at
\* once; such states exist only on a duct without a lock (they are reached
\* there: see the witness).
LockOnlyProtection ==
    (mode = "framed" /\ (Interleaved \/ Corrupted)) => lock["child"] = "absent"

\* Two threads have sent on a duct without a lock, the bytes of one frame
\* stand inside the other's, and a recv on the peer has failed on them.
LockOnlyProtectionWitness ==
    /\ mode = "framed"
    /\ lock["child"] = "absent"
    /\ senders = SendThreads
    /\ Interleaved
    /\ Corrupted

\* ===================================================== two receiving threads
\* The framing steps with one thread that sends on the child and two threads
\* that call recv on the parent, which has a lock.
TwoReceivers == [cast |-> {"s1", "r1", "r2"}, unlocked |-> FALSE]

RecvInit ==
    /\ FrameInit
    /\ lock["parent"] = "free"
    /\ PairInit
    /\ pair = NoPair
    /\ polled = "none"
    /\ conf = TwoReceivers
    /\ xfer = NoTransfer
    /\ Quiet

RecvSpec == RecvInit /\ [][Next]_vars

\* C23. Concurrent receivers with a shared lock: when two threads call recv
\* on a duct that has a lock, a thread that has started on a frame is the
\* only one reading until its call ends, and the calls return the frames one
\* by one: the i-th call to end returns the i-th payload sent, complete, so
\* each frame goes to exactly one call (calls past the last frame end with
\* RemoteClosed once the sender has closed).
SharedReceivers ==
    lock["parent"] # "absent"
        => /\ \A t, u \in RecvThreads : (InsideLock(t) /\ InsideLock(u)) => t = u
           /\ \A t \in RecvThreads : InsideLock(t) => lock["parent"] = t
           /\ mode = "framed"
                 => /\ \A i \in 1..Len(recvLog) :
                          recvLog[i] = IF i <= Len(Sent) THEN Value(Sent[i])
                                       ELSE Raised("RemoteClosed")
                    /\ \A t \in RecvThreads :
                          (th[t].pc = "release" /\ Len(recvLog) < Len(Sent))
                             => th[t].res = Value(Sent[Len(recvLog) + 1])

\* Two different payloads were sent; one thread has returned the first and the
\* other thread is returning the second.
SharedReceiversWitness ==
    /\ mode = "framed"
    /\ lock["parent"] # "absent"
    /\ Len(Sent) = 2
    /\ Sent[1] # Sent[2]
    /\ recvLog = <<Value(Sent[1])>>
    /\ \E t, u \in RecvThreads :
          /\ t # u
          /\ th[t].pc = "idle" /\ th[t].res = Value(Sent[1])
          /\ th[u].pc = "release" /\ th[u].res = Value(Sent[2])

\* ======================================================= the length field
\* One frame header from send to recv, for a serialized payload of
\* hi * 65536 + lo bytes (the payload bytes themselves are left out).
HighHalves == {0, 1, 255, 256, 32767, 32768, 65535, 65536, 65537}
LowHalves == {0, 1, 255, 256, 65535}

LenInit ==
    /\ FrameOff
    /\ PairInit
    /\ pair = NoPair
    /\ polled = "none"
    /\ conf = OneEach
    /\ xfer = NoTransfer
    /\ duplex = DuplexIdle
    /\ \E hi \in HighHalves, lo \in LowHalves :
          lenField = [NoField EXCEPT !.hi = hi, !.lo = lo, !.spc = "pack", !.rpc = "magic"]

LenFrame == <<mode, lock, th, sendCalls, senders, recvLog, lifeVars, pair, polled,
              conf, xfer, duplex>>

\* full_message = bytearray(struct.pack('!cL', MAGIC_BYTE, payload_len)), inside
\* the try block and before the write loop: struct.error leaves send.
HeaderPack ==
    /\ lenField.spc = "pack"
    /\ lenField' =
          IF PackRaisesHalves(lenField.hi, lenField.lo)
          THEN [lenField EXCEPT !.spc = "done", !.sres = "StructError"]
          ELSE [lenField EXCEPT !.spc = "write",
                  !.view = <<MAGIC_BYTE>> \o PackHalves(lenField.hi, lenField.lo)]
    /\ UNCHANGED <<wire, rpos, LenFrame>>

\* One turn of the write loop, on the header's bytes.
HeaderWrite(bytes_sent) ==
    /\ lenField.spc = "write"
    /\ bytes_sent >= 1
    /\ bytes_sent <= Len(lenField.view)
    /\ bytes_sent <= BufCap - InFlight
    /\ wire' = wire \o SubSeq(lenField.view, 1, bytes_sent)
    /\ lenField' =
          IF bytes_sent = Len(lenField.view)
          THEN [lenField EXCEPT !.spc = "done", !.view = <<>>, !.sres = "ok"]
          ELSE [lenField EXCEPT !.view = ViewAfter(@, bytes_sent)]
    /\ UNCHANGED <<rpos, LenFrame>>

\* leading_byte = self.socket_duct.recv(1)
HeaderMagic ==
    /\ lenField.rpc = "magic"
    /\ InFlight >= 1
    /\ rpos' = rpos + 1
    /\ lenField' = [lenField EXCEPT !.rpc = IF wire[rpos + 1] = MAGIC_BYTE THEN "len"
                                            ELSE "done"]
    /\ UNCHANGED <<wire, LenFrame>>

\* One turn of "while raw_payload_len_view", then struct.unpack('!L', ...)
HeaderLen(n) ==
    /\ lenField.rpc = "len"
    /\ n >= 1
    /\ n <= LenSize - Len(lenField.buf)
    /\ n <= InFlight
    /\ rpos' = rpos + n
    /\ LET got == lenField.buf \o SubSeq(wire, rpos + 1, rpos + n)
       IN lenField' =
             IF Len(got) < LenSize THEN [lenField EXCEPT !.buf = got]
             ELSE [lenField EXCEPT !.rpc = "done", !.buf = got, !.rres = UnpackHalves(got)]
    /\ UNCHANGED <<wire, LenFrame>>

LenNext ==
    \/ HeaderPack
    \/ \E bytes_sent \in 1..BufCap : HeaderWrite(bytes_sent)
    \/ HeaderMagic
    \/ \E n \in 1..LenSize : HeaderLen(n)

LenSpec == LenInit /\ [][LenNext]_vars

\* C25. 32-bit length field: for a payload length N = hi * 65536 + lo with
\* 0 <= N <= 2^32 - 1, the bytes send puts after the magic byte are N in
\* big-endian order (four bytes b1..b4 in 0..255 with b1 * 256 + b2 = hi and
\* b3 * 256 + b4 = lo) and the length recv decodes from them is N; where N
\* fits the checker's integers the operators on plain integers give the same
\* bytes and the same value; for N >= 2^32 send fails with struct.error and
\* no byte is ever written.
LengthField32 ==
    LET f == lenField
        sent == wire \o f.view
    IN IF f.hi <= 65535
       THEN /\ f.sres # "StructError"
            /\ f.spc \in {"write", "done"}
                  => /\ Len(sent) = 1 + LenSize
                     /\ sent[1] = MAGIC_BYTE
                     /\ \A i \in 2..5 : sent[i] \in 0..255
                     /\ sent[2] * 256 + sent[3] = f.hi
                     /\ sent[4] * 256 + sent[5] = f.lo
            /\ f.rpc = "done" => f.rres = [hi |-> f.hi, lo |-> f.lo]
            /\ f.hi <= 32767
                  => /\ ~PackRaises(f.hi * 65536 + f.lo)
                     /\ PackLen(f.hi * 65536 + f.lo) = PackHalves(f.hi, f.lo)
                     /\ UnpackLen(PackHalves(f.hi, f.lo)) = f.hi * 65536 + f.lo
       ELSE /\ wire = <<>>
            /\ f.spc \in {"pack", "done"}
            /\ f.spc = "done" => f.sres = "StructError"
            /\ f.rpc = "magic"

\* The largest length of the field, 2^32 - 1, has been sent and decoded.
LengthField32Witness ==
    /\ lenField.hi = 65535
    /\ lenField.lo = 65535
    /\ lenField.sres = "ok"
    /\ lenField.rpc = "done"
    /\ lenField.rres = [hi |-> 65535, lo |-> 65535]

\* ============================================ a pair used in both directions
\* create_psuedo_anonymous_duct_pair(parent_lock=..., child_lock=...): each
\* duct has its own lock, and on each duct one thread calls send and one
\* thread calls recv. Nobody closes.
\* Messages each duct sends.
MaxDuplexSends == 1

DuplexSenders == {"ps", "cs"}
DuplexReceivers == {"pr", "cr"}
DuplexDuct(t) == IF t \in {"ps", "pr"} THEN "parent" ELSE "child"
Other(d) == IF d = "parent" THEN "child" ELSE "parent"
\* Bytes duct d has written that its peer has not read.
DuplexInFlight(d) == Len(duplex.wire[d]) - duplex.rpos[d]

DuplexFrame == <<frameVars, lifeVars, pair, polled, conf, xfer, lenField>>

DuplexInit ==
    /\ FrameOff
    /\ PairInit
    /\ pair = NoPair
    /\ polled = "none"
    /\ conf = OneEach
    /\ xfer = NoTransfer
    /\ Quiet

\* send(payload) is called: send_lock = self.lock
DuplexSendCall(t, payload) ==
    /\ duplex.th[t].pc = "idle"
    /\ duplex.sends[DuplexDuct(t)] < MaxDuplexSends
    /\ duplex' = [duplex EXCEPT
                     !.th[t] = [Idle EXCEPT !.pc = "acquire", !.payload = payload],
                     !.sends[DuplexDuct(t)] = @ + 1]
    /\ UNCHANGED DuplexFrame

\* send_lock.acquire(); then serialize, pack, extend, memoryview
DuplexSendAcquire(t) ==
    /\ duplex.th[t].pc = "acquire"
    /\ CanAcquire(duplex.lock[DuplexDuct(t)])
    /\ duplex' = [duplex EXCEPT
                     !.lock[DuplexDuct(t)] = t,
                     !.th[t] = [@ EXCEPT !.pc = "write",
                                         !.view = FullMessage(duplex.th[t].payload)]]
    /\ UNCHANGED DuplexFrame

\* One turn of "while full_message_view"
DuplexSendWrite(t, bytes_sent) ==
    /\ duplex.th[t].pc = "write"
    /\ bytes_sent >= 1
    /\ bytes_sent <= Len(duplex.th[t].view)
    /\ bytes_sent <= BufCap - DuplexInFlight(DuplexDuct(t))
    /\ duplex' = [duplex EXCEPT
                     !.wire[DuplexDuct(t)] = @ \o SubSeq(duplex.th[t].view, 1, bytes_sent),
                     !.th[t] = IF bytes_sent = Len(@.view)
                               THEN [@ EXCEPT !.pc = "release", !.view = <<>>,
                                              !.res = Value(<<>>)]
                               ELSE [@ EXCEPT !.view = ViewAfter(@, bytes_sent)]]
    /\ UNCHANGED DuplexFrame

\* finally: if lock: lock.release(); the call returns or raises
DuplexRelease(t) ==
    /\ duplex.th[t].pc = "release"
    /\ duplex' = [duplex EXCEPT
                     !.lock[DuplexDuct(t)] = "free",
                     !.th[t] = [Idle EXCEPT !.res = duplex.th[t].res]]
    /\ UNCHANGED DuplexFrame

\* recv() is called: recv_lock = self.lock
DuplexRecvCall(t) ==
    /\ duplex.th[t].pc = "idle"
    /\ duplex' = [duplex EXCEPT !.th[t] = [Idle EXCEPT !.pc = "acquire"]]
    /\ UNCHANGED DuplexFrame

\* recv_lock.acquire()
DuplexRecvAcquire(t) ==
    /\ duplex.th[t].pc = "acquire"
    /\ CanAcquire(duplex.lock[DuplexDuct(t)])
    /\ duplex' = [duplex EXCEPT !.lock[DuplexDuct(t)] = t,
                                 !.th[t] = [@ EXCEPT !.pc = "magic"]]
    /\ UNCHANGED DuplexFrame

\* A read of the duct's socket returns n bytes the peer has written: at least
\* one (the peer does not close), and it blocks while none is in flight.
DuplexRecvRead(t, n) ==
    LET from == Other(DuplexDuct(t))
        r == duplex.th[t]
        bytes == SubSeq(duplex.wire[from], duplex.rpos[from] + 1, duplex.rpos[from] + n)
    IN /\ r.pc \in {"magic", "len", "payload"}
       /\ n >= 1
       /\ n <= DuplexInFlight(from)
       /\ n <= (IF r.pc = "magic" THEN 1 ELSE r.need - Len(r.buf))
       /\ duplex' = [duplex EXCEPT
                        !.rpos[from] = @ + n,
                        !.th[t] =
                           IF r.pc = "magic"
                           THEN IF bytes[1] # MAGIC_BYTE THEN BadMagic(r, bytes[1])
                                ELSE [r EXCEPT !.pc = "len", !.buf = <<>>, !.need = LenSize]
                           ELSE IF r.pc = "len" THEN LenStep(r, r.buf \o bytes)
                           ELSE PayloadStep(r, r.buf \o bytes)]
       /\ UNCHANGED DuplexFrame

DuplexNext ==
    \/ \E t \in DuplexSenders, payload \in ShortPayloads : DuplexSendCall(t, payload)
    \/ \E t \in DuplexSenders : DuplexSendAcquire(t)
    \/ \E t \in DuplexSenders, bytes_sent \in 1..BufCap : DuplexSendWrite(t, bytes_sent)
    \/ \E t \in DuplexThreads : DuplexRelease(t)
    \/ \E t \in DuplexReceivers : DuplexRecvCall(t)
    \/ \E t \in DuplexReceivers : DuplexRecvAcquire(t)
    \/ \E t \in DuplexReceivers, n \in 1..BufCap : DuplexRecvRead(t, n)

DuplexSpec == DuplexInit /\ [][DuplexNext]_vars

\* The send in progress on duct d waits for d's lock, which the recv in
\* progress on d holds while it waits for bytes of which none is in flight.
SendBehindRecv(d) ==
    \E s \in DuplexSenders, r \in DuplexReceivers :
        /\ DuplexDuct(s) = d
        /\ DuplexDuct(r) = d
        /\ duplex.th[s].pc = "acquire"
        /\ duplex.lock[d] = r
        /\ duplex.th[r].pc \in {"magic", "len", "payload"}
        /\ DuplexInFlight(Other(d)) = 0

\* C27. No deadlock from the shared send/recv lock: on a connected pair whose
\* ends have a lock each, with one thread in recv and one thread in send on
\* each end, a recv that is blocked waiting for data does not keep a send on
\* the same duct from going on (so that every send can complete): no send
\* waits for a lock held by a recv that waits for data.
NoSendBehindRecv ==
    \A d \in Ducts : ~SendBehindRecv(d)

====
